---- MODULE Spec2Model ----
(***************************************************************************)
(* hexviewer-pwa: the CMYK recipe engine (utils/colorUtils.ts), the        *)
(* two-tier recipe cache and batch fetch (utils/aiColorService.ts) and the *)
(* consumer hook (hooks/useAiCmyk.ts).                                     *)
(*                                                                         *)
(* Strings are sequences of one-character strings.  JavaScript numbers in  *)
(* a recipe are integers; the two non-numbers a recipe can hold are        *)
(* encoded as the integers NaN and JsonNull, which no arithmetic of the    *)
(* program produces.  A number of the remote payload is given in tenths    *)
(* (1307 stands for 130.7), so that fractional values can be received.     *)
(* The texts a recipe carries (description, modifications_made,            *)
(* paper_type) are left out: no operation reads them back.                 *)
(***************************************************************************)
EXTENDS Integers, Sequences, FiniteSets, TLC

(***************************************************************************)
(* Bounds of the model.                                                    *)
(***************************************************************************)
MaxRefresh == 2       \* refresh effects run in one behaviour
MaxColors == 2        \* longest color list of a single batch (SpecBatch)
MaxItems == 2         \* longest array in a remote response (SpecBatch)

(***************************************************************************)
(* Strings.                                                                *)
(***************************************************************************)
Str6(a, b, c, d, e, f) == <<"#", a, b, c, d, e, f>>

Black == Str6("0", "0", "0", "0", "0", "0")
White == Str6("F", "F", "F", "F", "F", "F")
Indigo == Str6("6", "3", "6", "6", "F", "1")

WhiteLower == Str6("f", "f", "f", "f", "f", "f")

\* the hex strings color records carry in the model: black, white in lower
\* case, and the 3-digit shorthand of white without its '#'
RawHexes == { Black, WhiteLower, <<"f", "f", "f">> }

HexDigits == { "0", "1", "2", "3", "4", "5", "6", "7", "8", "9",
               "A", "B", "C", "D", "E", "F", "a", "b", "c", "d", "e", "f" }

toUpperCase(s) ==
  [i \in 1..Len(s) |->
     CASE s[i] = "a" -> "A" [] s[i] = "b" -> "B" [] s[i] = "c" -> "C"
       [] s[i] = "d" -> "D" [] s[i] = "e" -> "E" [] s[i] = "f" -> "F"
       [] s[i] = "z" -> "Z" [] OTHER -> s[i]]

startsWithHash(s) == Len(s) > 0 /\ s[1] = "#"

\* /^#?([0-9A-Fa-f]{3}){1,2}$/i
isValidHex(hex) ==
  LET body == IF startsWithHash(hex) THEN Tail(hex) ELSE hex
  IN  /\ Len(body) \in {3, 6}
      /\ \A i \in 1..Len(body) : body[i] \in HexDigits

normalizeHex(hex) ==
  LET cleaned == IF startsWithHash(hex) THEN hex ELSE <<"#">> \o hex
  IN  IF ~isValidHex(cleaned) THEN White ELSE toUpperCase(cleaned)

HexVal(ch) ==
  CASE ch = "0" -> 0 [] ch = "1" -> 1 [] ch = "2" -> 2 [] ch = "3" -> 3
    [] ch = "4" -> 4 [] ch = "5" -> 5 [] ch = "6" -> 6 [] ch = "7" -> 7
    [] ch = "8" -> 8 [] ch = "9" -> 9
    [] ch \in {"A", "a"} -> 10 [] ch \in {"B", "b"} -> 11
    [] ch \in {"C", "c"} -> 12 [] ch \in {"D", "d"} -> 13
    [] ch \in {"E", "e"} -> 14 [] ch \in {"F", "f"} -> 15

\* hex.replace('#', '') removes the first '#'; a 3-character rest is doubled
hexToRgb(hex) ==
  LET first == IF \E i \in 1..Len(hex) : hex[i] = "#"
               THEN CHOOSE i \in 1..Len(hex) :
                      hex[i] = "#" /\ \A j \in 1..(i - 1) : hex[j] # "#"
               ELSE 0
      color == IF first = 0 THEN hex
               ELSE SubSeq(hex, 1, first - 1) \o SubSeq(hex, first + 1, Len(hex))
      full == IF Len(color) = 3
              THEN <<color[1], color[1], color[2], color[2], color[3], color[3]>>
              ELSE color
  IN  [r |-> 16 * HexVal(full[1]) + HexVal(full[2]),
       g |-> 16 * HexVal(full[3]) + HexVal(full[4]),
       b |-> 16 * HexVal(full[5]) + HexVal(full[6])]

(***************************************************************************)
(* Numbers.                                                                *)
(***************************************************************************)
NaN == 0 - 1000000       \* stands for the JavaScript value NaN
JsonNull == 0 - 1000001  \* stands for null, what JSON.stringify writes for NaN
Missing == 0 - 1000002   \* a payload component that is absent (undefined)

Max2(a, b) == IF a >= b THEN a ELSE b
Min2(a, b) == IF a <= b THEN a ELSE b
Max3(a, b, c) == Max2(a, Max2(b, c))
Min3(a, b, c) == Min2(a, Min2(b, c))

\* Math.round of the rational num/den (den > 0): the nearest integer, a tie
\* going up
RoundDiv(num, den) == (2 * num + den) \div (2 * den)

\* The pairs <<max, channel>> at which ((1 - ch/255 - k) / (1 - k)) * 100,
\* evaluated in IEEE-754 doubles, falls just below a tie x.5 that the exact
\* quotient 100 * (max - ch) / max hits, so that Math.round gives one less.
StdRoundsBelowTie ==
  { <<8,5>>, <<8,7>>, <<16,6>>, <<16,14>>, <<24,15>>, <<24,21>>, <<32,12>>, <<32,28>>, <<40,5>>,
    <<40,13>>, <<40,15>>, <<40,21>>, <<40,23>>, <<40,29>>, <<40,31>>, <<40,37>>, <<40,39>>,
    <<48,6>>, <<48,30>>, <<56,7>>, <<56,21>>, <<72,45>>, <<72,63>>, <<80,22>>, <<80,30>>, <<80,38>>,
    <<80,46>>, <<80,54>>, <<80,62>>, <<80,70>>, <<80,74>>, <<80,78>>, <<88,55>>, <<88,77>>,
    <<96,12>>, <<96,60>>, <<104,13>>, <<104,91>>, <<112,14>>, <<112,70>>, <<120,45>>, <<120,75>>,
    <<120,87>>, <<120,93>>, <<120,111>>, <<136,119>>, <<144,90>>, <<144,126>>, <<152,133>>,
    <<160,44>>, <<160,60>>, <<160,76>>, <<160,92>>, <<160,108>>, <<160,124>>, <<160,132>>,
    <<160,140>>, <<160,148>>, <<160,156>>, <<168,21>>, <<176,110>>, <<200,21>>, <<200,43>>,
    <<200,45>>, <<200,75>>, <<200,87>>, <<200,91>>, <<200,93>>, <<200,107>>, <<200,109>>,
    <<200,123>>, <<200,125>>, <<200,135>>, <<200,141>>, <<200,143>>, <<200,149>>, <<200,157>>,
    <<200,165>>, <<200,167>>, <<200,173>>, <<200,175>>, <<200,181>>, <<200,183>>, <<200,189>>,
    <<200,191>>, <<200,197>>, <<200,199>>, <<208,182>>, <<216,189>>, <<224,28>>, <<224,140>>,
    <<224,196>>, <<240,90>>, <<240,102>>, <<240,150>>, <<240,174>>, <<240,198>>, <<240,222>> }

\* kStd === 1 ? 0 : Math.round(((1 - chPrime - kStd) / (1 - kStd)) * 100)
StdChannel(ch, max) ==
  IF max = 0 THEN 0
  ELSE RoundDiv(100 * (max - ch), max)
       - (IF <<max, ch>> \in StdRoundsBelowTie THEN 1 ELSE 0)

\* the deterministic conversion of an RGB triple (lines 52-59)
StandardAuto(rgb) ==
  LET max == Max3(rgb.r, rgb.g, rgb.b)
  IN  [c |-> StdChannel(rgb.r, max),
       m |-> StdChannel(rgb.g, max),
       y |-> StdChannel(rgb.b, max),
       k |-> RoundDiv(100 * (255 - max), 255)]

\* the channel values of the RGB triples a conversion is called with on its
\* own
Channels == { 0, 1, 2, 3, 4, 5, 6, 28, 33, 34, 128, 255 }

\* The triples whose hue is a band end (50, 70, 165, 190, 260, 330) in exact
\* arithmetic and falls on the other side of it in the IEEE-754 doubles of
\* getHue: (5, 6, 0) has hue 70 and getHue computes 69.99999999999999, and
\* (34, 33, 28) has hue 50 and getHue computes 50.000000000000036.  The
\* tables hold the triples among those with channels in Channels, black,
\* white, indigo and the colors #1000XX of earlier sessions; no other triple
\* is converted in this model.
HueFallsBelow == { <<5, 6, 0>>, <<28, 33, 34>>, <<33, 34, 28>> }
HueFallsAbove == { <<34, 33, 28>> }

\* The hue in degrees as <<n, d, side>>: n / d (d > 0) is the hue in exact
\* arithmetic, and side tells where the double that getHue computes lies when
\* n / d is a band end: below it (-1), on it (0) or above it (1).
getHue(r, g, b) ==
  LET max == Max3(r, g, b)
      min == Min3(r, g, b)
      d == max - min
      side == IF <<r, g, b>> \in HueFallsBelow THEN 0 - 1
              ELSE IF <<r, g, b>> \in HueFallsAbove THEN 1 ELSE 0
  IN  IF max = min THEN <<0, 1, 0>>
      ELSE IF max = r THEN <<60 * ((g - b) + (IF g < b THEN 6 * d ELSE 0)), d, side>>
      ELSE IF max = g THEN <<60 * ((b - r) + 2 * d), d, side>>
      ELSE <<60 * ((r - g) + 4 * d), d, side>>

\* hue >= lo && hue <= hi, for band ends lo and hi
HueIn(hue, lo, hi) ==
  /\ \/ hue[1] > lo * hue[2]
     \/ hue[1] = lo * hue[2] /\ hue[3] >= 0
  /\ \/ hue[1] < hi * hue[2]
     \/ hue[1] = hi * hue[2] /\ hue[3] <= 0

\* Math.round(mStd * 1.2)
BoostM(mStd) == RoundDiv(12 * mStd, 10)

\* Math.round(yStd * 1.15): the doubles 50 * 1.15 and 90 * 1.15 fall just
\* below the ties 57.5 and 103.5
BoostY(yStd) == RoundDiv(115 * yStd, 100) - (IF yStd \in {50, 90} THEN 1 ELSE 0)

\* Math.round(cStd * 0.9)
TrimC(cStd) == RoundDiv(9 * cStd, 10)

\* the rules without the caps at 100 of the warm rule
SmartRecipeUncapped(normalized, std, hue) ==
  IF normalized = Black THEN [c |-> 60, m |-> 40, y |-> 40, k |-> 100]
  ELSE IF HueIn(hue, 0, 50) \/ HueIn(hue, 330, 360)
    THEN [c |-> 0, m |-> BoostM(std.m), y |-> BoostY(std.y), k |-> 0]
  ELSE IF HueIn(hue, 190, 260)
    THEN [c |-> 100, m |-> Min2(70, std.m), y |-> std.y,
          k |-> Max2(5, Min2(15, std.k + 5))]
  ELSE IF HueIn(hue, 70, 165)
    THEN [c |-> TrimC(std.c), m |-> 0, y |-> 100, k |-> 0]
  ELSE std

\* the rules with the warm rule tried before the rich-black rule
SmartRecipeWarmFirst(normalized, std, hue) ==
  IF HueIn(hue, 0, 50) \/ HueIn(hue, 330, 360)
    THEN [c |-> 0, m |-> Min2(100, BoostM(std.m)),
          y |-> Min2(100, BoostY(std.y)), k |-> 0]
  ELSE IF normalized = Black THEN [c |-> 60, m |-> 40, y |-> 40, k |-> 100]
  ELSE IF HueIn(hue, 190, 260)
    THEN [c |-> 100, m |-> Min2(70, std.m), y |-> std.y,
          k |-> Max2(5, Min2(15, std.k + 5))]
  ELSE IF HueIn(hue, 70, 165)
    THEN [c |-> TrimC(std.c), m |-> 0, y |-> 100, k |-> 0]
  ELSE std

\* the heuristic smart recipe (lines 61-94)
SmartRecipe(normalized, std, hue) ==
  IF normalized = Black THEN [c |-> 60, m |-> 40, y |-> 40, k |-> 100]
  ELSE IF HueIn(hue, 0, 50) \/ HueIn(hue, 330, 360)
    THEN [c |-> 0, m |-> Min2(100, BoostM(std.m)),
          y |-> Min2(100, BoostY(std.y)), k |-> 0]
  ELSE IF HueIn(hue, 190, 260)
    THEN [c |-> 100, m |-> Min2(70, std.m), y |-> std.y,
          k |-> Max2(5, Min2(15, std.k + 5))]
  ELSE IF HueIn(hue, 70, 165)
    THEN [c |-> TrimC(std.c), m |-> 0, y |-> 100, k |-> 0]
  ELSE std

getPrintConversions(hex) ==
  LET normalized == normalizeHex(hex)
      rgb == hexToRgb(normalized)
      std == StandardAuto(rgb)
  IN  [input_hex |-> normalized,
       standard_auto |-> std,
       smart_print_recipe |-> SmartRecipe(normalized, std, getHue(rgb.r, rgb.g, rgb.b))]

\* a recipe with its provenance
Tagged(recipe, source) ==
  [input_hex |-> recipe.input_hex,
   standard_auto |-> recipe.standard_auto,
   smart_print_recipe |-> recipe.smart_print_recipe,
   source |-> source]

\* a fallback that claims the remote service as its source
heuristicFallbackAsAi(hex) == Tagged(getPrintConversions(hex), "ai")

heuristicFallback(hex) == Tagged(getPrintConversions(hex), "heuristic")

\* Math.max(0, Math.min(100, Math.round(n))) of a payload component given in
\* tenths; Math.round(undefined) is NaN, and Math.min and Math.max keep NaN
clamp(n) ==
  IF n = Missing THEN NaN
  ELSE Max2(0, Min2(100, RoundDiv(n, 10)))

(***************************************************************************)
(* A Map in insertion order: a sequence of <<key, value>> pairs, no key    *)
(* twice.  Map.set on a present key keeps the key's place.                 *)
(***************************************************************************)
EmptyMap == <<>>

MapKeys(map) == { map[i][1] : i \in 1..Len(map) }

MapHas(map, key) == \E i \in 1..Len(map) : map[i][1] = key

MapGet(map, key) == map[CHOOSE i \in 1..Len(map) : map[i][1] = key][2]

MapSet(map, key, value) ==
  IF MapHas(map, key)
  THEN [i \in 1..Len(map) |-> IF map[i][1] = key THEN <<key, value>> ELSE map[i]]
  ELSE Append(map, <<key, value>>)

\* for (const [k, v] of source) target.set(k, v), as the Map the loop leaves:
\* the keys of target keep their places and take the value source sets last
\* for them; the keys new to target follow in the order in which source
\* first sets them, each with the value source sets last for it.
MapSetAll(target, source) ==
  LET LastAt(key) ==
        CHOOSE i \in 1..Len(source) :
          source[i][1] = key /\ \A j \in (i + 1)..Len(source) : source[j][1] # key
      IsFresh(i) ==
        /\ ~MapHas(target, source[i][1])
        /\ \A j \in 1..(i - 1) : source[j][1] # source[i][1]
      fresh == SelectSeq([i \in 1..Len(source) |-> i], IsFresh)
  IN  [i \in 1..Len(target) |->
         IF MapHas(source, target[i][1])
         THEN <<target[i][1], source[LastAt(target[i][1])][2]>>
         ELSE target[i]]
      \o [n \in 1..Len(fresh) |->
            <<source[fresh[n]][1], source[LastAt(source[fresh[n]][1])][2]>>]

\* a Map as a function of its keys
MapFn(map) == [key \in MapKeys(map) |-> MapGet(map, key)]

\* next = new Map(prev); for (const [k, v] of results) next.set(k, v)
Merge(prev, results) ==
  [key \in DOMAIN prev \cup MapKeys(results) |->
     IF MapHas(results, key) THEN MapGet(results, key) ELSE prev[key]]

SeqToSet(s) == { s[i] : i \in 1..Len(s) }

(***************************************************************************)
(* The durable tier: the localStorage item CACHE_KEY.                      *)
(***************************************************************************)
CacheLimit == 200

NoItem == [kind |-> "none"]

\* JSON.stringify writes null for NaN
JsonNumber(n) == IF n = NaN THEN JsonNull ELSE n

JsonCmyk(v) == [c |-> JsonNumber(v.c), m |-> JsonNumber(v.m),
                y |-> JsonNumber(v.y), k |-> JsonNumber(v.k)]

JsonEntry(e) ==
  [input_hex |-> e.input_hex,
   standard_auto |-> JsonCmyk(e.standard_auto),
   smart_print_recipe |-> JsonCmyk(e.smart_print_recipe),
   source |-> e.source]

\* a snapshot that keeps the oldest entries instead of the newest
SnapshotOldest(map) ==
  LET kept == SubSeq(map, 1, Min2(Len(map), CacheLimit))
  IN  [kind |-> "list",
       entries |-> [i \in 1..Len(kept) |-> <<kept[i][1], JsonEntry(kept[i][2])>>]]

\* Array.from(cache.entries()).slice(-200), serialized
Snapshot(map) ==
  LET from == IF Len(map) > CacheLimit THEN Len(map) - CacheLimit + 1 ELSE 1
      kept == SubSeq(map, from, Len(map))
  IN  [kind |-> "list",
       entries |-> [i \in 1..Len(kept) |-> <<kept[i][1], JsonEntry(kept[i][2])>>]]

\* a failed write that leaves the item removed
persistCacheLosesItem(map, item, full) == IF full THEN NoItem ELSE Snapshot(map)

\* persistCache: the item after the call; when setItem throws (storage
\* full), the exception is swallowed and the item is left as it was
persistCache(map, item, full) == IF full THEN item ELSE Snapshot(map)

\* { ...v, source: 'cache' }
AsCache(v) == [v EXCEPT !.source = "cache"]

\* the JSON value null as an element of the stored array: the destructuring
\* const [k, v] of line 17 throws on it
NullElement == <<"null">>

IsPair(element) == Len(element) = 2

\* hydrateCache into the empty module-level Map.  The item is absent, text
\* that JSON.parse rejects ("notjson"), a JSON value that cannot be iterated
\* ("object"), or a JSON array; the loop of lines 17-19 sets the entries
\* that come before the first element on which it throws, and the catch
\* block keeps what was set.
hydrateCache(item) ==
  IF item.kind \in {"none", "notjson", "object"} THEN EmptyMap
  ELSE LET thrown == { i \in 1..Len(item.entries) : ~IsPair(item.entries[i]) }
           done == IF thrown = {} THEN Len(item.entries)
                   ELSE (CHOOSE i \in thrown : \A j \in thrown : i <= j) - 1
       IN  MapSetAll(EmptyMap,
                     [i \in 1..done |->
                        <<item.entries[i][1], AsCache(item.entries[i][2])>>])

(***************************************************************************)
(* The remote response.                                                    *)
(***************************************************************************)
\* the c, m, y, k an element of the payload may carry, in tenths
Plain == [c |-> 100, m |-> 200, y |-> 300, k |-> 400]
Wild == [c |-> 1307, m |-> 0 - 50, y |-> 495, k |-> 1000]
Broken == [c |-> Missing, m |-> 200, y |-> 300, k |-> 400]
Payloads == { Plain, Wild, Broken }

\* an element without a string hex: normalizeHex(item.hex) throws on it
BadItem == [bad |-> TRUE]

Item(hex, p) == [bad |-> FALSE, hex |-> hex, c |-> p.c, m |-> p.m, y |-> p.y, k |-> p.k]

\* an entry whose standard_auto is taken from the element
AiEntryTrustsPayload(item) ==
  [input_hex |-> normalizeHex(item.hex),
   standard_auto |-> [c |-> clamp(item.c), m |-> clamp(item.m),
                      y |-> clamp(item.y), k |-> clamp(item.k)],
   smart_print_recipe |-> [c |-> clamp(item.c), m |-> clamp(item.m),
                           y |-> clamp(item.y), k |-> clamp(item.k)],
   source |-> "ai"]

\* the entry parseAiResponse builds from one element (lines 70-97)
AiEntry(item) ==
  LET normalized == normalizeHex(item.hex)
  IN  [input_hex |-> normalized,
       standard_auto |-> StandardAuto(hexToRgb(normalized)),
       smart_print_recipe |-> [c |-> clamp(item.c), m |-> clamp(item.m),
                               y |-> clamp(item.y), k |-> clamp(item.k)],
       source |-> "ai"]

\* the for loop over the parsed array: the results built before the first
\* element that throws, and whether one threw
RECURSIVE ParseItems(_, _)
ParseItems(items, results) ==
  IF items = <<>> THEN [results |-> results, threw |-> FALSE]
  ELSE IF Head(items).bad THEN [results |-> results, threw |-> TRUE]
  ELSE ParseItems(Tail(items),
                  MapSet(results, normalizeHex(Head(items).hex), AiEntry(Head(items))))

\* the catch block: every requested hex not in results falls back
RECURSIVE FallbackMissing(_, _)
FallbackMissing(requestedHexes, results) ==
  IF requestedHexes = <<>> THEN results
  ELSE FallbackMissing(Tail(requestedHexes),
                       IF MapHas(results, Head(requestedHexes)) THEN results
                       ELSE MapSet(results, Head(requestedHexes),
                                   heuristicFallback(Head(requestedHexes))))

\* A response body: text that is not JSON, JSON that is not iterable (an
\* object), or a JSON array of elements.
parseAiResponse(body, requestedHexes) ==
  IF body.kind \in {"notjson", "object"}
  THEN FallbackMissing(requestedHexes, EmptyMap)
  ELSE LET loop == ParseItems(body.items, EmptyMap)
       IN  IF loop.threw THEN FallbackMissing(requestedHexes, loop.results)
           ELSE loop.results

(***************************************************************************)
(* The state.                                                              *)
(***************************************************************************)
VARIABLES
  wide,       \* the inputs explored: every list and response shape for one
              \* batch (TRUE), or a few for overlapping refreshes (FALSE)
  apiKey,     \* process.env.GEMINI_API_KEY; "" stands for a missing one
  cache,      \* the module-level Map of aiColorService (fast tier)
  stored,     \* the localStorage item (durable tier)
  storageFull,\* localStorage.setItem throws (the quota is used up)
  hook,       \* "init", "mounted" or "unmounted": the component using useAiCmyk
  colors,     \* the hex strings of the hook's color records
  aiResults,  \* the hook's state aiResults, a function of its keys
  isLoading,  \* the hook's state isLoading
  refreshes,  \* how many times the refresh effect ran
  fetches,    \* the fetchAiCmykBatch calls whose then-callback has not run
  last,       \* history: the fetchAiCmykBatch call that returned most recently
  arg,        \* the string a function of colorUtils is called with
  ret         \* the call of that function and what it returned

vars == <<wide, apiKey, cache, stored, storageFull, hook, colors, aiResults, isLoading,
          refreshes, fetches, last, arg, ret>>

\* no function of colorUtils was called on its own
NoRet == [fn |-> "none"]

ApiKeys == { "", "PLACEHOLDER_API_KEY", "key" }

\* a credential test that forgets the placeholder
NoCredentialMissingOnly(key) == key = ""

\* !apiKey || apiKey === 'PLACEHOLDER_API_KEY'
NoCredential(key) == key = "" \/ key = "PLACEHOLDER_API_KEY"

RECURSIVE SeqsUpTo(_, _)
SeqsUpTo(S, n) ==
  IF n = 0 THEN { <<>> }
  ELSE LET shorter == SeqsUpTo(S, n - 1)
       IN  shorter \cup { Append(s, e) : s \in { t \in shorter : Len(t) = n - 1 }, e \in S }

\* the color lists handed to the hook
ColorLists ==
  IF wide THEN SeqsUpTo(RawHexes, MaxColors)
  ELSE { <<>>, <<Black>>, <<WhiteLower>>, <<Black, WhiteLower>> }

NoLast ==
  [n |-> 0, path |-> "none", hexCodes |-> <<>>, uncached |-> <<>>,
   results |-> EmptyMap, body |-> [kind |-> "none"], calls |-> 0,
   sent |-> <<>>, then |-> "none", superseded |-> FALSE]

(***************************************************************************)
(* fetchAiCmykBatch up to its first await (lines 112-152).                 *)
(***************************************************************************)
\* lines 115-123: the cached entries and the uncached hexes, in input order
RECURSIVE Partition(_, _, _)
Partition(hexCodes, map, acc) ==
  IF hexCodes = <<>> THEN acc
  ELSE LET normalized == normalizeHex(Head(hexCodes))
       IN  Partition(Tail(hexCodes), map,
             IF MapHas(map, normalized)
             THEN [acc EXCEPT !.results = MapSet(@, normalized, MapGet(map, normalized))]
             ELSE [acc EXCEPT !.uncached = Append(@, normalized)])

\* for (const hex of uncached) target.set(hex, heuristicFallback(hex))
RECURSIVE FallbackAll(_, _)
FallbackAll(uncached, target) ==
  IF uncached = <<>> THEN target
  ELSE FallbackAll(Tail(uncached),
                   MapSet(target, Head(uncached), heuristicFallback(Head(uncached))))

\* a call that sends every requested hex, cached or not
StartFetchSendsAll(hexCodes, map, key) ==
  LET part == Partition(hexCodes, map, [results |-> EmptyMap, uncached |-> <<>>])
      every == [i \in 1..Len(hexCodes) |-> normalizeHex(hexCodes[i])]
  IN  [path |-> "remote", hexCodes |-> hexCodes, uncached |-> part.uncached,
       results |-> part.results, calls |-> 1, sent |-> every,
       status |-> "await", cancelled |-> FALSE, superseded |-> FALSE]

\* the call as it stands when fetchAiCmykBatch returns or first awaits
StartFetch(hexCodes, map, key) ==
  LET part == Partition(hexCodes, map, [results |-> EmptyMap, uncached |-> <<>>])
  IN  IF part.uncached = <<>>
      THEN [path |-> "cached", hexCodes |-> hexCodes, uncached |-> <<>>,
            results |-> part.results, calls |-> 0, sent |-> <<>>,
            status |-> "resolved", cancelled |-> FALSE, superseded |-> FALSE]
      ELSE IF NoCredential(key)
      THEN [path |-> "nokey", hexCodes |-> hexCodes, uncached |-> part.uncached,
            results |-> FallbackAll(part.uncached, part.results),
            calls |-> 0, sent |-> <<>>,
            status |-> "resolved", cancelled |-> FALSE, superseded |-> FALSE]
      ELSE [path |-> "remote", hexCodes |-> hexCodes, uncached |-> part.uncached,
            results |-> part.results, calls |-> 1, sent |-> part.uncached,
            status |-> "await", cancelled |-> FALSE, superseded |-> FALSE]

\* what the history keeps of a call that returned
Returned(f, path, results, body, then) ==
  [n |-> last.n + 1, path |-> path, hexCodes |-> f.hexCodes,
   uncached |-> f.uncached, results |-> results, body |-> body,
   calls |-> f.calls, sent |-> f.sent, then |-> then,
   superseded |-> f.superseded]

\* the effect's cleanup: cancelled = true
Cancel(fs) == [i \in 1..Len(fs) |-> [fs[i] EXCEPT !.cancelled = TRUE]]

\* a newer refresh has started
Supersede(fs) ==
  [i \in 1..Len(fs) |-> [fs[i] EXCEPT !.cancelled = TRUE, !.superseded = TRUE]]

RemoveAt(s, i) == SubSeq(s, 1, i - 1) \o SubSeq(s, i + 1, Len(s))

MicrotaskPending == \E i \in 1..Len(fetches) : fetches[i].status = "resolved"

(***************************************************************************)
(* The hook (useAiCmyk).                                                   *)
(***************************************************************************)
\* The refresh effect for the color list cs (lines 17-37), after the
\* cleanup of the effect it replaces.
RunEffect(cs) ==
  /\ colors' = cs
  /\ refreshes' = refreshes + 1
  /\ UNCHANGED <<wide, apiKey, storageFull, aiResults, arg, ret>>
  /\ IF cs = <<>>
     THEN /\ fetches' = Cancel(fetches)
          /\ UNCHANGED <<cache, stored, isLoading, last>>
     ELSE LET f == StartFetch(cs, cache, apiKey)
          IN  /\ isLoading' = TRUE
              /\ fetches' = Append(Supersede(fetches), f)
              /\ IF f.path = "nokey"
                 THEN /\ cache' = FallbackAll(f.uncached, cache)
                      /\ stored' = persistCache(cache', stored, storageFull)
                 ELSE UNCHANGED <<cache, stored>>
              /\ IF f.status = "resolved"
                 THEN last' = Returned(f, f.path, f.results, [kind |-> "none"], "pending")
                 ELSE UNCHANGED last

\* the first render and its effect
Mount(cs) ==
  /\ hook = "init"
  /\ refreshes < MaxRefresh
  /\ hook' = "mounted"
  /\ RunEffect(cs)

\* line 15: colors.map(c => c.hex).join(',')
RECURSIVE hexKey(_)
hexKey(cs) ==
  IF cs = <<>> THEN <<>>
  ELSE IF Len(cs) = 1 THEN cs[1]
  ELSE cs[1] \o <<",">> \o hexKey(Tail(cs))

\* a render that runs the effect whether or not hexKey changed
SetColorsEveryRender(cs) ==
  /\ hook = "mounted"
  /\ ~MicrotaskPending
  /\ refreshes < MaxRefresh
  /\ cs # colors
  /\ UNCHANGED hook
  /\ RunEffect(cs)

\* a render with another hexKey: the old effect's cleanup, then the effect
SetColors(cs) ==
  /\ hook = "mounted"
  /\ ~MicrotaskPending
  /\ refreshes < MaxRefresh
  /\ hexKey(cs) # hexKey(colors)
  /\ UNCHANGED hook
  /\ RunEffect(cs)

\* a render with another list of the same hexKey: no effect runs
Rerender(cs) ==
  /\ hook = "mounted"
  /\ ~MicrotaskPending
  /\ cs # colors
  /\ hexKey(cs) = hexKey(colors)
  /\ colors' = cs
  /\ UNCHANGED <<wide, apiKey, cache, stored, storageFull, hook, aiResults,
                 isLoading, refreshes, fetches, last, arg, ret>>

\* a then-callback that does not look at cancelled
ThenCallbackAlways(f, results) ==
  /\ aiResults' = Merge(aiResults, results)
  /\ isLoading' = FALSE

\* the then-callback of lines 23-31 on the hook's state
ThenCallback(f, results) ==
  IF f.cancelled
  THEN UNCHANGED <<aiResults, isLoading>>
  ELSE /\ aiResults' = Merge(aiResults, results)
       /\ isLoading' = FALSE

\* the then-callback of a call that returned without awaiting
Microtask(i) ==
  /\ i \in 1..Len(fetches)
  /\ fetches[i].status = "resolved"
  /\ ThenCallback(fetches[i], fetches[i].results)
  /\ fetches' = RemoveAt(fetches, i)
  /\ last' = [last EXCEPT !.then = IF fetches[i].cancelled THEN "dropped" ELSE "applied"]
  /\ UNCHANGED <<wide, apiKey, cache, stored, storageFull, hook, colors, refreshes, arg, ret>>

\* the bodies a remote response may carry for the call f
Items(f) ==
  { Item(h, p) : h \in SeqToSet(f.uncached) \cup { Indigo }, p \in Payloads }
    \cup { BadItem }

\* f's distinct uncached hexes, in order
RECURSIVE Distinct(_)
Distinct(s) ==
  IF s = <<>> THEN <<>>
  ELSE LET front == Distinct(SubSeq(s, 1, Len(s) - 1))
       IN  IF s[Len(s)] \in SeqToSet(front) THEN front ELSE Append(front, s[Len(s)])

Answer(hexes, p) == [i \in 1..Len(hexes) |-> Item(hexes[i], p)]

Bodies(f) ==
  IF wide
  THEN { [kind |-> "notjson"], [kind |-> "object"] }
         \cup { [kind |-> "array", items |-> s] : s \in SeqsUpTo(Items(f), MaxItems) }
  ELSE LET all == Distinct(f.uncached)
           one == IF all = <<>> THEN <<>> ELSE <<all[1]>>
       IN  { [kind |-> "notjson"],
             [kind |-> "array", items |-> Answer(all, Plain)],
             [kind |-> "array", items |-> Answer(all, Wild)],
             [kind |-> "array", items |-> Answer(one, Plain)],
             [kind |-> "array", items |-> Append(Answer(one, Plain), BadItem)] }

\* the remote call fails (a network error or a non-2xx status): the catch
\* block of lines 165-171, then the then-callback
SettleFailed(i) ==
  /\ i \in 1..Len(fetches)
  /\ fetches[i].status = "await"
  /\ ~MicrotaskPending
  /\ LET f == fetches[i]
         results == FallbackAll(f.uncached, f.results)
     IN  /\ ThenCallback(f, results)
         /\ last' = Returned(f, "failed", results, [kind |-> "none"],
                             IF f.cancelled THEN "dropped" ELSE "applied")
  /\ fetches' = RemoveAt(fetches, i)
  /\ UNCHANGED <<wide, apiKey, cache, stored, storageFull, hook, colors, refreshes, arg, ret>>

\* the remote call answers with a body: lines 156-164, then the
\* then-callback
SettleResponse(i, body) ==
  /\ i \in 1..Len(fetches)
  /\ fetches[i].status = "await"
  /\ ~MicrotaskPending
  /\ LET f == fetches[i]
         parsed == parseAiResponse(body, f.uncached)
         results == MapSetAll(f.results, parsed)
     IN  /\ cache' = MapSetAll(cache, parsed)
         /\ stored' = persistCache(cache', stored, storageFull)
         /\ ThenCallback(f, results)
         /\ last' = Returned(f, "response", results, body,
                             IF f.cancelled THEN "dropped" ELSE "applied")
  /\ fetches' = RemoveAt(fetches, i)
  /\ UNCHANGED <<wide, apiKey, storageFull, hook, colors, refreshes, arg, ret>>

\* a teardown that leaves the effect's cancelled flag as it is
UnmountWithoutCleanup ==
  /\ hook = "mounted"
  /\ ~MicrotaskPending
  /\ hook' = "unmounted"
  /\ UNCHANGED <<wide, apiKey, cache, stored, storageFull, colors, aiResults,
                 isLoading, refreshes, fetches, last, arg, ret>>

\* the component is torn down: the effect's cleanup runs
Unmount ==
  /\ hook = "mounted"
  /\ ~MicrotaskPending
  /\ hook' = "unmounted"
  /\ fetches' = Cancel(fetches)
  /\ UNCHANGED <<wide, apiKey, cache, stored, storageFull, colors, aiResults,
                 isLoading, refreshes, last, arg, ret>>

\* the page is loaded again: the module is evaluated anew (hydrateCache, line
\* 31) and nothing of the old page is left but the localStorage item
Reload ==
  /\ hook # "init"
  /\ refreshes < MaxRefresh
  /\ ~MicrotaskPending
  /\ cache' = hydrateCache(stored)
  /\ hook' = "init"
  /\ colors' = <<>>
  /\ aiResults' = <<>>
  /\ isLoading' = FALSE
  /\ fetches' = <<>>
  /\ last' = NoLast
  /\ UNCHANGED <<wide, apiKey, stored, storageFull, refreshes, arg, ret>>

\* other writers of the origin use up the localStorage quota, or free it
StorageQuota ==
  /\ ~MicrotaskPending
  /\ storageFull' = ~storageFull
  /\ UNCHANGED <<wide, apiKey, cache, stored, hook, colors, aiResults, isLoading,
                 refreshes, fetches, last, arg, ret>>

\* the state once the module is evaluated, with the item left by earlier
\* page loads
Loaded(item) ==
  /\ apiKey \in ApiKeys
  /\ stored = item
  /\ storageFull = FALSE
  /\ cache = hydrateCache(stored)
  /\ hook = "init"
  /\ colors = <<>>
  /\ aiResults = <<>>
  /\ isLoading = FALSE
  /\ refreshes = 0
  /\ fetches = <<>>
  /\ last = NoLast
  /\ arg = <<>>
  /\ ret = NoRet

\* the first page load
Init == wide = FALSE /\ Loaded(NoItem)

Next ==
  \/ \E cs \in ColorLists : Mount(cs)
  \/ \E cs \in ColorLists : SetColors(cs)
  \/ \E i \in DOMAIN fetches : Microtask(i)
  \/ \E i \in DOMAIN fetches : SettleFailed(i)
  \/ \E i \in DOMAIN fetches :
       \E body \in Bodies(fetches[i]) : SettleResponse(i, body)
  \/ Unmount
  \/ Reload
  \/ StorageQuota

Spec == Init /\ [][Next]_vars

(***************************************************************************)
(* One batch: a page load that finds the item an earlier page load left,   *)
(* and a single fetchAiCmykBatch call with every list and response shape.  *)
(***************************************************************************)
\* items earlier page loads leave: none, a heuristic entry for black (no
\* credential, or a failed parse), an ai entry for white
EarlierItems ==
  { NoItem,
    Snapshot(FallbackAll(<<Black>>, EmptyMap)),
    Snapshot(MapSet(EmptyMap, White, AiEntry(Item(White, Plain)))) }

InitBatch == wide = TRUE /\ \E item \in EarlierItems : Loaded(item)

NextBatch ==
  \/ \E cs \in ColorLists : Mount(cs)
  \/ \E i \in DOMAIN fetches : Microtask(i)
  \/ \E i \in DOMAIN fetches : SettleFailed(i)
  \/ \E i \in DOMAIN fetches :
       \E body \in Bodies(fetches[i]) : SettleResponse(i, body)
  \/ StorageQuota

SpecBatch == InitBatch /\ [][NextBatch]_vars

\* line 40: the key getResult looks up in aiResults
HookKey(hex) ==
  IF startsWithHash(toUpperCase(hex)) THEN toUpperCase(hex)
  ELSE <<"#">> \o toUpperCase(hex)

\* a lookup that asks the Recipe Cache before the hook's own results
getResultCacheFirst(ai, map, hex) ==
  IF MapHas(map, normalizeHex(hex)) THEN MapGet(map, normalizeHex(hex))
  ELSE IF HookKey(hex) \in DOMAIN ai THEN ai[HookKey(hex)]
  ELSE Tagged(getPrintConversions(hex), "heuristic")

\* getResult (lines 39-48) for the hook's results ai and the fast tier map
getResultOf(ai, map, hex) ==
  LET normalized == HookKey(hex)
  IN  IF normalized \in DOMAIN ai THEN ai[normalized]
      ELSE IF MapHas(map, normalizeHex(hex)) THEN MapGet(map, normalizeHex(hex))
      ELSE Tagged(getPrintConversions(hex), "heuristic")

\* getResult in the current state
getResult(hex) == getResultOf(aiResults, cache, hex)

(***************************************************************************)
(* Properties.                                                             *)
(***************************************************************************)
Provenances == { "ai", "heuristic", "cache" }

\* the hexes getResult is asked for
Probes == RawHexes \cup { White, Indigo, <<"z", "z", "z">> }

\* what a consumer of the hook observes
Observed(loading, ai, map) ==
  [loading |-> loading, results |-> [h \in Probes |-> getResultOf(ai, map, h)]]

\* the step is the return of a remote call that a newer refresh superseded
StaleCompletion ==
  /\ last'.n = last.n + 1
  /\ last'.path \in {"failed", "response"}
  /\ last'.superseded

\* C1 as stated: the completion of a fetch superseded by a newer refresh
\* changes neither isLoading nor what getResult returns for any hex.
C1_StaleChangesNothing == [][StaleCompletion =>
       Observed(isLoading', aiResults', cache') = Observed(isLoading, aiResults, cache)]_vars

\* C1 amended: the completion of a fetch superseded by a newer refresh
\* changes neither isLoading nor the hook's in-memory results, and getResult
\* returns the same for every hex that has an in-memory result; a hex without
\* one is served from the Recipe Cache, which the completion may have written.
C1_StaleKeepsHookState ==
  [][StaleCompletion =>
       /\ isLoading' = isLoading
       /\ aiResults' = aiResults
       /\ \A h \in Probes :
            \/ getResultOf(aiResults', cache', h) = getResult(h)
            \/ /\ HookKey(h) \notin DOMAIN aiResults
               /\ normalizeHex(h) \in MapKeys(cache')
               /\ getResultOf(aiResults', cache', h) = MapGet(cache', normalizeHex(h))]_vars

\* a superseded fetch got its response while the hook was mounted and wrote
\* an ai entry that getResult now serves from the Recipe Cache
C1_Witness ==
  /\ hook = "mounted"
  /\ last.path = "response" /\ last.superseded /\ last.then = "dropped"
  /\ \E h \in Probes :
       /\ HookKey(h) \notin DOMAIN aiResults
       /\ normalizeHex(h) \in SeqToSet(last.uncached)
       /\ getResult(h).source = "ai"

\* a batch fetch started for the current color set is still outstanding
CurrentOutstanding == \E i \in DOMAIN fetches : ~fetches[i].cancelled

\* C2: while the hook is mounted, isLoading is true if and only if a batch
\* fetch started for the current color set is still outstanding.
C2_LoadingIffOutstanding == hook = "mounted" => (isLoading <=> CurrentOutstanding)

\* C3: getResult returns the hook's in-memory result if there is one,
\* otherwise the Recipe Cache entry if there is one, otherwise the heuristic
\* recipe tagged heuristic, and what it returns always carries a provenance.
C3_LookupOrder ==
  \A h \in Probes :
    /\ HookKey(h) \in DOMAIN aiResults => getResult(h) = aiResults[HookKey(h)]
    /\ (HookKey(h) \notin DOMAIN aiResults /\ normalizeHex(h) \in MapKeys(cache))
         => getResult(h) = MapGet(cache, normalizeHex(h))
    /\ (HookKey(h) \notin DOMAIN aiResults /\ normalizeHex(h) \notin MapKeys(cache))
         => /\ getResult(h).source = "heuristic"
            /\ getResult(h).input_hex = normalizeHex(h)
            /\ getResult(h).standard_auto = getPrintConversions(h).standard_auto
            /\ getResult(h).smart_print_recipe = getPrintConversions(h).smart_print_recipe
    /\ getResult(h).source \in Provenances

\* the three tiers answer at once, and they disagree: the hook holds a
\* result for one hex that differs from the cache's entry for it, a second
\* hex is served by the cache alone and a third by the heuristic
C3_Witness ==
  /\ \E h \in Probes :
       /\ HookKey(h) \in DOMAIN aiResults
       /\ normalizeHex(h) \in MapKeys(cache)
       /\ aiResults[HookKey(h)] # MapGet(cache, normalizeHex(h))
  /\ \E h \in Probes :
       HookKey(h) \notin DOMAIN aiResults /\ normalizeHex(h) \in MapKeys(cache)
  /\ \E h \in Probes :
       HookKey(h) \notin DOMAIN aiResults /\ normalizeHex(h) \notin MapKeys(cache)

\* C4: when the Recipe Cache holds an ai-tagged recipe for a hex, getResult
\* does not return a heuristic-tagged recipe for it.
C4_AiBeatsHeuristic ==
  \A h \in Probes :
    (normalizeHex(h) \in MapKeys(cache) /\ MapGet(cache, normalizeHex(h)).source = "ai")
      => getResult(h).source # "heuristic"

\* the normalized hexes of the call that returned last
Requested == { normalizeHex(last.hexCodes[i]) : i \in 1..Len(last.hexCodes) }

\* C5: the mapping fetchAiCmykBatch returns has an entry for every normalized
\* requested hex.
C5_EveryHexReturned == last.path # "none" => Requested \subseteq MapKeys(last.results)

Zero == [c |-> 0, m |-> 0, y |-> 0, k |-> 0]

\* C6: when the remote call fails in transport, the call still returns, and
\* it maps every uncached hex to the Heuristic Engine's recipe tagged
\* heuristic: black's smart recipe is (60,40,40,100), and white's
\* deterministic and smart values are all zero.
C6_TransportFallback ==
  last.path = "failed" =>
    /\ last.then \in {"applied", "dropped"}
    /\ \A h \in SeqToSet(last.uncached) :
         /\ h \in MapKeys(last.results)
         /\ MapGet(last.results, h) = Tagged(getPrintConversions(h), "heuristic")
         /\ h = Black => MapGet(last.results, h).smart_print_recipe
                           = [c |-> 60, m |-> 40, y |-> 40, k |-> 100]
         /\ h = White => /\ MapGet(last.results, h).standard_auto = Zero
                         /\ MapGet(last.results, h).smart_print_recipe = Zero

\* the remote call for the batch of black and white failed
C6_Witness ==
  /\ last.path = "failed"
  /\ last.calls = 1
  /\ SeqToSet(last.uncached) = { Black, White }

\* the body is not JSON, not an array, or has an element without a string hex
Malformed(body) ==
  \/ body.kind \in {"notjson", "object"}
  \/ body.kind = "array" /\ \E i \in 1..Len(body.items) : body.items[i].bad

\* C7: when the remote payload is malformed, every uncached hex is resolved
\* by the Heuristic Engine and nothing of the batch is returned or cached
\* with ai provenance.
C7_NoPartialSuccess ==
  (last.path = "response" /\ Malformed(last.body)) =>
    \A h \in SeqToSet(last.uncached) :
      /\ h \in MapKeys(last.results)
      /\ MapGet(last.results, h).source = "heuristic"

\* the step runs the refresh effect for a non-empty color list, and so
\* calls fetchAiCmykBatch
Invokes == refreshes' = refreshes + 1 /\ colors' # <<>>

\* the call the step made
Invoked == fetches'[Len(fetches')]

\* the normalized hexes of the step's call that are not in the cache
NotCached == { normalizeHex(colors'[i]) : i \in 1..Len(colors') } \ MapKeys(cache)

\* C8: with a credential, a call of fetchAiCmykBatch issues one remote call
\* when a requested hex is not in the Recipe Cache and none otherwise, and
\* the hexes it sends are exactly the normalized requested hexes that are
\* not in the cache.
C8_OneCallForUncached ==
  [][(Invokes /\ apiKey = "key") =>
       /\ Invoked.calls = IF NotCached = {} THEN 0 ELSE 1
       /\ SeqToSet(Invoked.sent) = NotCached]_vars

\* a call with one hex served by the cache and another sent to the service
C8_Witness ==
  \E i \in DOMAIN fetches :
    /\ fetches[i].status = "await"
    /\ fetches[i].calls = 1
    /\ fetches[i].results # EmptyMap
    /\ SeqToSet(fetches[i].sent) \cap MapKeys(fetches[i].results) = {}
    /\ fetches[i].sent # <<>>

\* C9: without a credential (missing, or the placeholder) a call of
\* fetchAiCmykBatch issues no remote call, resolves every uncached hex with
\* the Heuristic Engine, writes each into the fast tier tagged heuristic,
\* flushes the durable tier, and returns them with the cached entries.
C9_HeuristicOnly ==
  [][(Invokes /\ apiKey \in {"", "PLACEHOLDER_API_KEY"}) =>
       /\ Invoked.calls = 0
       /\ Invoked.sent = <<>>
       /\ Invoked.status = "resolved"
       /\ \A h \in NotCached :
            /\ h \in MapKeys(Invoked.results)
            /\ MapGet(Invoked.results, h) = Tagged(getPrintConversions(h), "heuristic")
            /\ h \in MapKeys(cache')
            /\ MapGet(cache', h) = Tagged(getPrintConversions(h), "heuristic")
       /\ \A h \in MapKeys(cache) \cap { normalizeHex(colors'[i]) : i \in 1..Len(colors') } :
            /\ h \in MapKeys(Invoked.results)
            /\ MapGet(Invoked.results, h) = MapGet(cache, h)
       /\ (NotCached # {} /\ ~storageFull) => stored' = Snapshot(cache')]_vars

\* with the placeholder credential, a call returned a cached entry and a
\* heuristic one, and the durable tier holds the flushed fast tier
C9_Witness ==
  /\ apiKey = "PLACEHOLDER_API_KEY"
  /\ last.path = "nokey"
  /\ \E h \in MapKeys(last.results) : MapGet(last.results, h).source = "cache"
  /\ \E h \in MapKeys(last.results) : MapGet(last.results, h).source = "heuristic"
  /\ stored = Snapshot(cache)
  /\ Len(cache) > 1

InkValue(n) == n \in 0..100

InkValues(v) == InkValue(v.c) /\ InkValue(v.m) /\ InkValue(v.y) /\ InkValue(v.k)

\* C10: every smart-recipe value in a returned mapping, in the fast tier and
\* in the durable snapshot is an integer in 0..100.
C10_InkInRange ==
  /\ \A i \in 1..Len(last.results) : InkValues(last.results[i][2].smart_print_recipe)
  /\ \A i \in 1..Len(cache) : InkValues(cache[i][2].smart_print_recipe)
  /\ stored.kind = "list" =>
       \A i \in 1..Len(stored.entries) : InkValues(stored.entries[i][2].smart_print_recipe)

\* C11: when the Recipe Cache holds an ai-tagged recipe for a hex (one written
\* in this session: a hydrated entry is tagged cache), getResult for that hex
\* returns the same four smart CMYK values with provenance ai.
C11_CacheRoundTrip ==
  \A h \in Probes :
    (normalizeHex(h) \in MapKeys(cache) /\ MapGet(cache, normalizeHex(h)).source = "ai")
      => /\ getResult(h).source = "ai"
         /\ getResult(h).smart_print_recipe
              = MapGet(cache, normalizeHex(h)).smart_print_recipe

\* the normalized hexes of the step's call that the cache holds at invocation
ServedFromCache == { normalizeHex(colors'[i]) : i \in 1..Len(colors') } \cap MapKeys(cache)

\* C12: every entry a call of fetchAiCmykBatch serves from the Recipe Cache
\* (a hex cached at invocation) is in the call's results with provenance
\* cache, whether the entry was hydrated or written earlier in the session.
C12_ServedTaggedCache ==
  [][Invokes =>
       \A h \in ServedFromCache :
         /\ h \in MapKeys(Invoked.results)
         /\ MapGet(Invoked.results, h).source = "cache"]_vars

\* the step is the return of a remote call after the component was torn down
CompletionAfterTeardown ==
  /\ hook = "unmounted"
  /\ last'.n = last.n + 1
  /\ last'.path \in {"failed", "response"}

\* C13: when the component is torn down while a batch fetch is outstanding,
\* the later completion of that fetch, success or failure, changes neither
\* the hook's results nor isLoading.
C13_NoUpdateAfterTeardown ==
  [][CompletionAfterTeardown => (aiResults' = aiResults /\ isLoading' = isLoading)]_vars

\* the fetch for the current, non-empty color list completed after the
\* teardown (nothing but the teardown cancels a fetch that is not
\* superseded while the list is non-empty), and its results were dropped
C13_Witness ==
  /\ hook = "unmounted"
  /\ colors # <<>>
  /\ last.path \in {"failed", "response"}
  /\ ~last.superseded
  /\ last.then = "dropped"
  /\ last.results # EmptyMap
  /\ isLoading

(***************************************************************************)
(* A full durable tier: a page load that finds the item of earlier page    *)
(* loads holding one entry less than the retention limit, and overlapping  *)
(* refreshes that add entries to the fast tier.                            *)
(***************************************************************************)
HexChars == <<"0", "1", "2", "3", "4", "5", "6", "7", "8", "9",
              "A", "B", "C", "D", "E", "F">>

\* the n-th color of earlier sessions, #1000XX
EarlierHex(n) == Str6("1", "0", "0", "0", HexChars[(n \div 16) + 1], HexChars[(n % 16) + 1])

\* the item a session without a credential leaves after resolving k colors
Prefilled(k) ==
  Snapshot([n \in 1..k |-> <<EarlierHex(n), heuristicFallback(EarlierHex(n))>>])

InitFlush == wide = FALSE /\ Loaded(Prefilled(CacheLimit - 1))

NextFlush ==
  \/ \E cs \in ColorLists : Mount(cs)
  \/ \E cs \in ColorLists : SetColors(cs)
  \/ \E i \in DOMAIN fetches : Microtask(i)
  \/ \E i \in DOMAIN fetches : SettleFailed(i)
  \/ \E i \in DOMAIN fetches :
       \E body \in Bodies(fetches[i]) : SettleResponse(i, body)
  \/ StorageQuota

SpecFlush == InitFlush /\ [][NextFlush]_vars

\* the step runs persistCache, and localStorage.setItem does not throw
FlushSucceeds ==
  /\ last'.n = last.n + 1
  /\ last'.path \in {"nokey", "response"}
  /\ ~storageFull

\* the keys of a map, in the map's order
KeySeq(map) == [i \in 1..Len(map) |-> map[i][1]]

\* C14: the fast tier keeps its keys in the order of their first insertion (a
\* step appends the new keys and moves none), and after every successful
\* flush the durable snapshot holds at most 200 entries, which are the last
\* min(200, n) entries of the n-entry fast tier, in that order.
C14_SnapshotIsTail ==
  [][/\ Len(cache') >= Len(cache)
     /\ SubSeq(KeySeq(cache'), 1, Len(cache)) = KeySeq(cache)
     /\ FlushSucceeds =>
          LET n == Len(cache')
              kept == Min2(CacheLimit, n)
          IN  /\ stored'.kind = "list"
              /\ Len(stored'.entries) = kept
              /\ kept <= 200
              /\ \A i \in 1..kept :
                   stored'.entries[i]
                     = <<cache'[n - kept + i][1], JsonEntry(cache'[n - kept + i][2])>>]_vars

\* With 199 entries hydrated, white was inserted as the 200th entry by a
\* superseded fetch; the current fetch then inserted black as the 201st and
\* overwrote white, written after black.  The flush dropped the oldest entry
\* and kept white before black.
C14_Witness ==
  /\ last.path = "response"
  /\ last.sent = <<Black, White>>
  /\ last.body = [kind |-> "array", items |-> Answer(<<Black, White>>, Wild)]
  /\ Len(cache) = CacheLimit + 1
  /\ cache[CacheLimit] = <<White, AiEntry(Item(White, Wild))>>
  /\ cache[CacheLimit + 1][1] = Black
  /\ stored.kind = "list"
  /\ Len(stored.entries) = CacheLimit
  /\ stored.entries[1][1] = EarlierHex(2)
  /\ stored.entries[CacheLimit - 1][1] = White
  /\ stored.entries[CacheLimit][1] = Black

\* the step runs persistCache while localStorage.setItem throws
FlushFails ==
  /\ last'.n = last.n + 1
  /\ last'.path \in {"nokey", "response"}
  /\ storageFull

\* the keys of the durable snapshot
StoredKeys == IF stored.kind = "list" THEN MapKeys(stored.entries) ELSE {}

\* C15: when the write to the durable tier fails, fetchAiCmykBatch still
\* returns; the fast tier then holds every new entry of the batch, the
\* returned mapping is the cached entries with the new ones (what it is with
\* a working durable tier), and the durable snapshot is unchanged.
C15_FailedFlushIsSilent ==
  [][FlushFails =>
       \A part \in { Partition(last'.hexCodes, cache,
                                [results |-> EmptyMap, uncached |-> <<>>]) } :
         \A new \in { IF last'.path = "nokey"
                       THEN FallbackAll(part.uncached, EmptyMap)
                       ELSE parseAiResponse(last'.body, part.uncached) } :
           /\ stored' = stored
           /\ last'.then \in {"pending", "applied", "dropped"}
           /\ \A h \in MapKeys(new) : MapHas(cache', h) /\ MapGet(cache', h) = MapGet(new, h)
           /\ last'.results = MapSetAll(part.results, new)]_vars

\* a batch wrote an entry into the fast tier that the durable snapshot, left
\* by an earlier page load, does not have: its flush failed
C15_Witness ==
  /\ storageFull
  /\ last.path \in {"nokey", "response"}
  /\ stored.kind = "list"
  /\ \E h \in SeqToSet(last.uncached) :
       /\ MapHas(cache, h)
       /\ MapHas(last.results, h)
       /\ h \notin StoredKeys

(***************************************************************************)
(* Page loads that find a damaged item: the hook with one refresh per page *)
(* load.                                                                   *)
(***************************************************************************)
\* the entry for black that a session without a credential leaves
StoredBlack == Snapshot(FallbackAll(<<Black>>, EmptyMap)).entries[1]

\* items the first page load may find: an intact one, text that is not JSON,
\* a JSON object, an array of a null, and an array of an intact entry and a
\* null
FoundItems ==
  { [kind |-> "list", entries |-> <<StoredBlack>>],
    [kind |-> "notjson"],
    [kind |-> "object"],
    [kind |-> "list", entries |-> <<NullElement>>],
    [kind |-> "list", entries |-> <<StoredBlack, NullElement>>] }

InitHydrate == wide = FALSE /\ \E item \in FoundItems : Loaded(item)

NextHydrate ==
  \/ \E cs \in ColorLists : Mount(cs)
  \/ \E i \in DOMAIN fetches : Microtask(i)
  \/ \E i \in DOMAIN fetches : SettleFailed(i)
  \/ \E i \in DOMAIN fetches :
       \E body \in Bodies(fetches[i]) : SettleResponse(i, body)
  \/ Reload

SpecHydrate == InitHydrate /\ [][NextHydrate]_vars

\* hydrateCache threw on the item: it is not JSON, not iterable, or has an
\* element that is not a pair
HydrationFails(item) ==
  \/ item.kind \in {"notjson", "object"}
  \/ item.kind = "list" /\ \E i \in 1..Len(item.entries) : ~IsPair(item.entries[i])

\* C16: the page load completes whatever item it finds, and when
\* hydrateCache fails on the item (unparseable text, a value that is not a
\* list, a list with an element that is not a pair) the fast tier is empty
\* once the module is evaluated.
C16_FailedHydrationLeavesEmpty ==
  (hook = "init" /\ HydrationFails(stored)) => cache = EmptyMap

(***************************************************************************)
(* The functions of colorUtils called on their own: one call of            *)
(* normalizeHex or of getPrintConversions with a string.                   *)
(***************************************************************************)
\* the two hex digits of a channel value
ToHex(r, g, b) ==
  Str6(HexChars[(r \div 16) + 1], HexChars[(r % 16) + 1],
       HexChars[(g \div 16) + 1], HexChars[(g % 16) + 1],
       HexChars[(b \div 16) + 1], HexChars[(b % 16) + 1])

\* other spellings of a hex: lower and mixed case, without '#', 3 digits
\* (valid), and strings that are no hex (invalid)
OtherSpellings ==
  { WhiteLower,
    <<"f", "f", "f", "f", "f", "f">>,
    <<"0", "0", "0", "0", "0", "0">>,
    <<"#", "a", "B", "c", "D", "e", "F">>,
    <<"f", "f", "f">>, <<"#", "f", "f", "f">>, <<"F", "F", "F">>,
    <<"0", "0", "0">>, <<"#", "0", "0", "0">>, <<"#", "1", "a", "F">>,
    <<>>, <<"#">>, <<"z", "z", "z">>, <<"#", "1", "2", "3", "4", "5">>,
    <<"#", "#", "f", "f", "f">> }

HexInputs == { ToHex(r, g, b) : r \in Channels, g \in Channels, b \in Channels }
               \cup OtherSpellings

InitConvert ==
  /\ wide = FALSE
  /\ apiKey = ""
  /\ stored = NoItem
  /\ storageFull = FALSE
  /\ cache = hydrateCache(stored)
  /\ hook = "init"
  /\ colors = <<>>
  /\ aiResults = <<>>
  /\ isLoading = FALSE
  /\ refreshes = 0
  /\ fetches = <<>>
  /\ last = NoLast
  /\ arg \in HexInputs
  /\ ret = NoRet

CallNormalizeHex ==
  /\ ret = NoRet
  /\ ret' = [fn |-> "normalizeHex", value |-> normalizeHex(arg)]
  /\ UNCHANGED <<wide, apiKey, cache, stored, storageFull, hook, colors, aiResults,
                 isLoading, refreshes, fetches, last, arg>>

CallGetPrintConversions ==
  /\ ret = NoRet
  /\ ret' = [fn |-> "getPrintConversions", value |-> getPrintConversions(arg)]
  /\ UNCHANGED <<wide, apiKey, cache, stored, storageFull, hook, colors, aiResults,
                 isLoading, refreshes, fetches, last, arg>>

\* parseAiResponse on a response of one element whose hex is the string
CallParseAiResponse ==
  /\ ret = NoRet
  /\ \E p \in Payloads :
       ret' = [fn |-> "parseAiResponse", item |-> Item(arg, p),
               value |-> parseAiResponse([kind |-> "array", items |-> <<Item(arg, p)>>],
                                         <<>>)]
  /\ UNCHANGED <<wide, apiKey, cache, stored, storageFull, hook, colors, aiResults,
                 isLoading, refreshes, fetches, last, arg>>

NextConvert == CallNormalizeHex \/ CallGetPrintConversions \/ CallParseAiResponse

SpecConvert == InitConvert /\ [][NextConvert]_vars

UpperHexDigits == { HexChars[i] : i \in 1..Len(HexChars) }

\* a 7-character uppercase #RRGGBB string
IsCanonical(hex) ==
  /\ Len(hex) = 7
  /\ hex[1] = "#"
  /\ \A i \in 2..7 : hex[i] \in UpperHexDigits

\* C17: for every valid 3-digit or 6-digit hex string x, with or without a
\* leading '#', normalizeHex(normalizeHex(x)) = normalizeHex(x), and
\* normalizeHex(x) is a 7-character uppercase #RRGGBB string.
C17_NormalizeCanonical ==
  (ret.fn = "normalizeHex" /\ isValidHex(arg)) =>
    /\ normalizeHex(ret.value) = ret.value
    /\ IsCanonical(ret.value)

\* C18: for every RGB triple, the four deterministic (standard_auto) values
\* and the four heuristic smart-recipe values that getPrintConversions
\* returns are integers in 0..100, whichever rule applies.
C18_ConversionsInRange ==
  ret.fn = "getPrintConversions" =>
    /\ InkValues(ret.value.standard_auto)
    /\ InkValues(ret.value.smart_print_recipe)

\* a warm color whose boosted magenta and yellow both exceed 100 and are
\* capped
C18_Witness ==
  /\ ret.fn = "getPrintConversions"
  /\ BoostM(ret.value.standard_auto.m) > 100
  /\ BoostY(ret.value.standard_auto.y) > 100
  /\ ret.value.smart_print_recipe
       = [c |-> 0, m |-> 100, y |-> 100, k |-> 0]

\* C19: getPrintConversions on pure white gives deterministic C=M=Y=K=0; on
\* pure black it gives deterministic C=M=Y=0, K=100 and the smart recipe
\* (60,40,40,100), although black's hue of 0 matches the warm rule.
C19_WhiteAndBlack ==
  ret.fn = "getPrintConversions" =>
    /\ ret.value.input_hex = White => ret.value.standard_auto = Zero
    /\ ret.value.input_hex = Black =>
         /\ ret.value.standard_auto = [c |-> 0, m |-> 0, y |-> 0, k |-> 100]
         /\ ret.value.smart_print_recipe = [c |-> 60, m |-> 40, y |-> 40, k |-> 100]
         /\ HueIn(getHue(0, 0, 0), 0, 50)

\* getPrintConversions was called with pure black written without '#'
C19_Witness ==
  /\ ret.fn = "getPrintConversions"
  /\ arg = <<"0", "0", "0", "0", "0", "0">>
  /\ ret.value.input_hex = Black
  /\ ret.value.smart_print_recipe.k = 100

\* the rule that the hue of a normalized hex selects in exact arithmetic,
\* the band ends included, by first match
ExactBand(hex) ==
  LET rgb == hexToRgb(hex)
      h == getHue(rgb.r, rgb.g, rgb.b)
      Within(lo, hi) == h[1] >= lo * h[2] /\ h[1] <= hi * h[2]
  IN  IF hex = Black THEN "rich-black"
      ELSE IF Within(0, 50) \/ Within(330, 360) THEN "warm"
      ELSE IF Within(190, 260) THEN "blue"
      ELSE IF Within(70, 165) THEN "green"
      ELSE "pass-through"

\* the smart recipe of a rule for the deterministic values std
BandRecipe(band, std) ==
  CASE band = "rich-black" -> [c |-> 60, m |-> 40, y |-> 40, k |-> 100]
    [] band = "warm" -> [c |-> 0, m |-> Min2(100, BoostM(std.m)),
                         y |-> Min2(100, BoostY(std.y)), k |-> 0]
    [] band = "blue" -> [c |-> 100, m |-> Min2(70, std.m), y |-> std.y,
                         k |-> Max2(5, Min2(15, std.k + 5))]
    [] band = "green" -> [c |-> TrimC(std.c), m |-> 0, y |-> 100, k |-> 0]
    [] band = "pass-through" -> std

\* C20: for every RGB triple the smart recipe is that of exactly one rule,
\* the first that matches in the order rich-black, warm (hue in [0,50] or
\* [330,360]), blue ([190,260]), green ([70,165]), pass-through, with the
\* band ends 50, 70, 165, 190, 260 and 330 included in their bands; so a hue
\* of 0 is never blue or green, and a hue strictly between two bands leaves
\* the deterministic values unchanged.
C20_BandByFirstMatch ==
  ret.fn = "getPrintConversions" =>
    ret.value.smart_print_recipe
      = BandRecipe(ExactBand(ret.value.input_hex), ret.value.standard_auto)

(***************************************************************************)
(* A session without a credential that finds no localStorage item: the     *)
(* hook's refreshes, with the indigo of App.tsx among the colors.          *)
(***************************************************************************)
\* the color lists of such a session
HeuristicLists ==
  { <<>>, <<Indigo>>, <<Black, WhiteLower>>, << <<"f", "f", "f">> >>, <<Indigo, Black>> }

InitHeuristic == wide = FALSE /\ Loaded(NoItem) /\ NoCredential(apiKey)

NextHeuristic ==
  \/ \E cs \in HeuristicLists : Mount(cs)
  \/ \E cs \in HeuristicLists : SetColors(cs)
  \/ \E i \in DOMAIN fetches : Microtask(i)
  \/ Unmount
  \/ StorageQuota

SpecHeuristic == InitHeuristic /\ [][NextHeuristic]_vars

\* the RGB value of each hex getResult is asked for; a string that is not a
\* hex color stands for white
ProbeRgb(h) ==
  CASE h = Black -> [r |-> 0, g |-> 0, b |-> 0]
    [] h = Indigo -> [r |-> 99, g |-> 102, b |-> 241]
    [] OTHER -> [r |-> 255, g |-> 255, b |-> 255]

\* C21: in a session without a credential that started from an empty
\* durable snapshot, before, during and after every refresh getResult
\* returns, for every hex, provenance heuristic and the standard_auto the
\* deterministic formula gives for the hex's RGB; for #6366F1 that is the
\* formula applied to (99,102,241), which is (59,58,0,5).
C21_HeuristicWithoutCredential ==
  /\ \A h \in Probes :
       /\ getResult(h).source = "heuristic"
       /\ getResult(h).standard_auto = StandardAuto(ProbeRgb(h))
  /\ getResult(Indigo).standard_auto = [c |-> 59, m |-> 58, y |-> 0, k |-> 5]

\* the refresh for #6366F1 is over and getResult serves the hook's own
\* result for it
C21_Witness ==
  /\ hook = "mounted"
  /\ colors = <<Indigo>>
  /\ fetches = <<>>
  /\ ~isLoading
  /\ HookKey(Indigo) \in DOMAIN aiResults

(***************************************************************************)
(* The hook with its scheduling: a then-callback that is due runs, and a   *)
(* started remote call settles.                                            *)
(***************************************************************************)
Settles ==
  \E i \in DOMAIN fetches :
    \/ SettleFailed(i)
    \/ \E body \in Bodies(fetches[i]) : SettleResponse(i, body)

\* a remote call is awaited and no then-callback is due: Settles is enabled
AwaitPending ==
  \E i \in DOMAIN fetches : fetches[i].status = "await" /\ ~MicrotaskPending

\* Weak fairness of the then-callbacks and of Settles; that of Settles is
\* written out, with the state predicate AwaitPending that ENABLED
\* <<Settles>>_vars equals.
SpecLive ==
  /\ Init
  /\ [][Next]_vars
  /\ WF_vars(\E i \in DOMAIN fetches : Microtask(i))
  /\ ([]<>(~AwaitPending) \/ []<><<Settles>>_vars)

\* C22: when the color set stops changing, at any value, and every started
\* remote call settles, isLoading of the mounted hook eventually becomes
\* false and stays false.
C22_LoadingSettles == <>[](hook = "mounted" => ~isLoading)

\* the step loads the page again, which ends the session
Reloads == hook # "init" /\ hook' = "init"

\* C23: within a session, an ai-tagged entry of the fast tier is never
\* replaced by a heuristic-tagged entry: once the fast tier holds ai
\* provenance for a hex, it holds ai provenance for that hex after every
\* step, however overlapping batch fetches for that hex interleave.
C23_AiEntryStays ==
  [][~Reloads =>
       \A h \in MapKeys(cache) :
         MapGet(cache, h).source = "ai" =>
           /\ MapHas(cache', h)
           /\ MapGet(cache', h).source = "ai"]_vars

\* the step is the return of a remote call whose payload was malformed
MalformedCompletion ==
  /\ last'.n = last.n + 1
  /\ last'.path = "response"
  /\ Malformed(last'.body)

\* C24: a malformed remote payload is recovered as a transport failure is:
\* the call returns the mapping it would return had the remote call failed
\* (the cached entries and the heuristic recipe of every uncached hex), and
\* leaves the fast tier and the durable snapshot as a failed call leaves
\* them, unchanged.
C24_MalformedAsTransportFailure ==
  [][MalformedCompletion =>
       /\ \E i \in DOMAIN fetches :
            /\ fetches' = RemoveAt(fetches, i)
            /\ last'.results = FallbackAll(fetches[i].uncached, fetches[i].results)
       /\ cache' = cache
       /\ stored' = stored]_vars

\* the entries of the map a call of parseAiResponse returned
Built == { ret.value[i][2] : i \in DOMAIN ret.value }

\* C25: in every entry built from a remote response element, standard_auto
\* is getPrintConversions(hex).standard_auto for the entry's own hex, for
\* every RGB value, and does not depend on the c, m, y, k of the element.
C25_StandardAutoIsLocal ==
  ret.fn = "parseAiResponse" =>
    /\ Built # {}
    /\ \A e \in Built :
         /\ e.input_hex = normalizeHex(ret.item.hex)
         /\ e.standard_auto = getPrintConversions(e.input_hex).standard_auto
         /\ e.standard_auto = StandardAuto(hexToRgb(e.input_hex))
         /\ \A p \in Payloads :
              AiEntry(Item(ret.item.hex, p)).standard_auto = e.standard_auto

\* an entry built from an element whose c, m, y, k are out of range, for a
\* color whose standard_auto has four different values
C25_Witness ==
  /\ ret.fn = "parseAiResponse"
  /\ ret.item.c = Wild.c
  /\ \E e \in Built :
       /\ e.input_hex = ToHex(28, 33, 128)
       /\ e.source = "ai"
       /\ Cardinality({ e.standard_auto.c, e.standard_auto.m,
                        e.standard_auto.y, e.standard_auto.k }) = 4

\* the step is the return of a fetchAiCmykBatch call
Completion == last'.n = last.n + 1

\* the normalized hexes the call that returns in the step was asked for
RequestedBy(call) == { normalizeHex(call.hexCodes[i]) : i \in 1..Len(call.hexCodes) }

\* the keys the step wrote into the fast tier
Written(old, new) ==
  { h \in MapKeys(new) : ~MapHas(old, h) \/ MapGet(new, h) # MapGet(old, h) }

\* C26: every key of the mapping a fetchAiCmykBatch call returns, and every
\* key the call writes into the Recipe Cache, is one of the call's
\* normalized requested hexes, whatever hex values the elements of the
\* remote response carry.
C26_OnlyRequestedKeys ==
  [][Completion =>
       /\ MapKeys(last'.results) \subseteq RequestedBy(last')
       /\ Written(cache, cache') \subseteq RequestedBy(last')]_vars

(***************************************************************************)
(* The hook rendered with lists that share a hexKey: the empty list and    *)
(* the list of one empty string, two hexes and one string that holds both  *)
(* with the comma between them.                                            *)
(***************************************************************************)
CoalesceLists ==
  { <<>>, << <<>> >>, <<Black>>, <<Black, WhiteLower>>,
    << Black \o <<",">> \o WhiteLower >> }

NextCoalesce ==
  \/ \E cs \in CoalesceLists : Mount(cs)
  \/ \E cs \in CoalesceLists : SetColors(cs)
  \/ \E cs \in CoalesceLists : Rerender(cs)
  \/ \E i \in DOMAIN fetches : Microtask(i)
  \/ \E i \in DOMAIN fetches : SettleFailed(i)
  \/ \E i \in DOMAIN fetches :
       \E body \in Bodies(fetches[i]) : SettleResponse(i, body)
  \/ Unmount

SpecCoalesce == Init /\ [][NextCoalesce]_vars

\* the step starts exactly one batch fetch, for the new color list
StartsOne ==
  /\ Len(fetches') = Len(fetches) + 1
  /\ fetches'[Len(fetches')].hexCodes = colors'

\* the step starts no batch fetch
StartsNone ==
  /\ Len(fetches') <= Len(fetches)
  /\ \A i \in DOMAIN fetches' : \E j \in DOMAIN fetches :
       fetches'[i].hexCodes = fetches[j].hexCodes

\* the mounted hook's hexKey is new in the step: the first render, or a
\* render with another key
KeyChanges ==
  /\ hook' = "mounted"
  /\ hook = "init" \/ hexKey(colors') # hexKey(colors)

\* C27: a step starts a batch fetch exactly when the hexKey of the hook is
\* new (the first render, or a render with another key) and the color list
\* is not empty, and then it starts exactly one, for that list; a render
\* with an unchanged key, and every other step, starts none.
C27_OneFetchPerKeyChange ==
  [][IF KeyChanges /\ colors' # <<>> THEN StartsOne ELSE StartsNone]_vars

\* the hook was rendered again with another list of the same hexKey while
\* its remote call was awaited
C27_Witness ==
  /\ hook = "mounted"
  /\ colors = << Black \o <<",">> \o WhiteLower >>
  /\ Len(fetches) = 1
  /\ fetches[1].hexCodes = <<Black, WhiteLower>>
  /\ fetches[1].status = "await"
  /\ ~fetches[1].cancelled

(***************************************************************************)
(* Sessions and restarts: a batch whose response answers every sent hex    *)
(* with one of the payloads, then the page loaded again.                   *)
(***************************************************************************)
RestartBodies(f) ==
  { [kind |-> "array", items |-> Answer(Distinct(f.uncached), p)] : p \in Payloads }

NextRestart ==
  \/ \E cs \in ColorLists : Mount(cs)
  \/ \E i \in DOMAIN fetches : Microtask(i)
  \/ \E i \in DOMAIN fetches : SettleFailed(i)
  \/ \E i \in DOMAIN fetches :
       \E body \in RestartBodies(fetches[i]) : SettleResponse(i, body)
  \/ Reload
  \/ StorageQuota

SpecRestart == Init /\ [][NextRestart]_vars

\* the keys of the durable snapshot, in its order
StoredKeySeq ==
  IF stored.kind = "list" THEN [i \in 1..Len(stored.entries) |-> stored.entries[i][1]]
  ELSE <<>>

\* C28: when the page is loaded again after a successful flush (the durable
\* snapshot is that of the fast tier), the new fast tier holds exactly the
\* keys of the snapshot, in its order, each with the standard_auto and the
\* smart-recipe values the fast tier held for it before the restart, and
\* with provenance cache.
C28_RestartRoundTrip ==
  [][(Reloads /\ stored = Snapshot(cache)) =>
       /\ KeySeq(cache') = StoredKeySeq
       /\ \A h \in MapKeys(cache') :
            /\ MapGet(cache', h).standard_auto = MapGet(cache, h).standard_auto
            /\ MapGet(cache', h).smart_print_recipe = MapGet(cache, h).smart_print_recipe
            /\ MapGet(cache', h).source = "cache"]_vars

\* C29: every key of the fast tier and of the durable snapshot, and the
\* input_hex of every entry, is '#' followed by exactly 6 uppercase hex
\* digits (3-digit shorthand expanded), and the key is the entry's
\* input_hex.
C29_KeysNormalized ==
  /\ \A i \in DOMAIN cache :
       /\ IsCanonical(cache[i][1])
       /\ cache[i][2].input_hex = cache[i][1]
  /\ stored.kind = "list" =>
       \A i \in DOMAIN stored.entries :
         /\ IsCanonical(stored.entries[i][1])
         /\ stored.entries[i][2].input_hex = stored.entries[i][1]

\* no element of the sequence occurs in it twice
NoRepeats(s) == \A i, j \in DOMAIN s : s[i] = s[j] => i = j

\* C30: the hex list a fetchAiCmykBatch call sends in its remote call holds
\* each hex once, also when the requested list holds the same uncached hex
\* more than once or several inputs that normalize to the same hex.
C30_SentOnce ==
  /\ NoRepeats(last.sent)
  /\ \A i \in DOMAIN fetches : NoRepeats(fetches[i].sent)

\* the color of the hex is achromatic and not black: R = G = B > 0
IsGray(hex) ==
  LET rgb == hexToRgb(hex)
  IN  rgb.r = rgb.g /\ rgb.g = rgb.b /\ rgb.r > 0

\* C31: for every achromatic color other than black (R = G = B > 0) no
\* hue-banded rule applies, and the heuristic smart recipe is the
\* deterministic CMYK: a gray keeps its deterministic K.
C31_GrayKeepsDeterministic ==
  (ret.fn = "getPrintConversions" /\ IsGray(ret.value.input_hex)) =>
    /\ ret.value.smart_print_recipe = ret.value.standard_auto
    /\ ret.value.smart_print_recipe.k = ret.value.standard_auto.k
====
